---- MODULE Spec2Model ----
(***************************************************************************)
(* A model of src/config.rs of pki-playground: the graph validator         *)
(* load_and_validate, applied to a decoded Document, and the policy        *)
(* resolver TryFrom<&CertificatePolicy> for PolicyInformation.             *)
(*                                                                         *)
(* An Option<String> is a sequence: <<>> is None and <<s>> is Some(s).     *)
(* A miette error is its format string and the arguments interpolated      *)
(* into it, in order.                                                      *)
(***************************************************************************)
EXTENDS Integers, Sequences, FiniteSets, TLC

VARIABLES doc, pc, result, policies, resolved

vars == <<doc, pc, result, policies, resolved>>

-----------------------------------------------------------------------------
(* Bounds of the model. *)

MaxKeyPairs == 3

MaxKeyTypes == 2

MaxEntities == 2

MaxCerts == 2

MaxRequests == 1

MaxPolicies == 3

(* The identifiers a document may use, in any namespace. *)
Names == {"a", "b"}

-----------------------------------------------------------------------------
(* The document model. *)

None == <<>>

Some(s) == <<s>>

OptionString == {None} \cup {Some(n) : n \in Names}

SeqsUpTo(S, n) == UNION {[1..k -> S] : k \in 0..n}

(* KeyPair.key_type is a Vec<KeyType>; the validator reads its length only, *)
(* so one vector of each length stands for all of them.                     *)
KeyTypeVec(n) == [k \in 1..n |-> "Ed25519"]

KeyPair == [name : Names, key_type : {KeyTypeVec(n) : n \in 0..MaxKeyTypes}]

Entity == [name : Names]

Certificate == [name : Names,
                subject_entity : Names,
                subject_key : Names,
                issuer_entity : OptionString,
                issuer_certificate : OptionString,
                issuer_key : Names]

CertificateRequest == [name : Names, subject_entity : Names, subject_key : Names]

Document(kps, ents, certs, reqs) ==
    [key_pairs |-> kps, entities |-> ents, certificates |-> certs,
     certificate_requests |-> reqs]

EmptyDocument == Document(<<>>, <<>>, <<>>, <<>>)

-----------------------------------------------------------------------------
(* Results. *)

Pending == [status |-> "Pending"]

Ok(d) == [status |-> "Ok", doc |-> d]

Err(m, a) == [status |-> "Err", msg |-> m, args |-> a]

(* Display of a usize, for the counts the model can produce. *)
Decimal(n) == <<"0", "1", "2", "3", "4", "5", "6", "7", "8", "9">>[n + 1]

MsgKeyTypeCount == "key pairs must have exactly one key type. key pair \"{}\" has {}."

MsgDuplicateKeyPair == "key pairs must have unique names. \"{}\" is used more than once."

MsgDuplicateEntity == "entities must have unique names. \"{}\" is used more than once."

MsgDuplicateCertificate == "certificates must have unique names. \"{}\" is used more than once."

MsgSubjectEntity == "certificate \"{}\" subject entity \"{}\" does not exist"

MsgSubjectKey == "certificate \"{}\" subject key pair \"{}\" does not exist"

MsgNoIssuer == "certificate \"{}\" must specify either an issuer entity or certificate"

MsgBothIssuers == "certificate \"{}\" specifies both an issuer entity and certificate.  Only one may be specified."

MsgIssuerEntity == "certificate \"{}\" issuer entity \"{}\" does not exist"

MsgIssuerCertificate == "certificate \"{}\" issuer certificate \"{}\" does not exist"

MsgIssuerKey == "certificate \"{}\" issuer key pair \"{}\" does not exist"

-----------------------------------------------------------------------------
(* load_and_validate, after the document is decoded.  Each loop is a        *)
(* recursion over the index of the item it is at; a loop returns either the *)
(* error it bailed with or the name set it has built.                       *)

NoError == [status |-> "NoError"]

Bailed(e) == [err |-> e, names |-> {}]

Built(names) == [err |-> NoError, names |-> names]

(* A variant of KeyTypeCountBad that rejects only a key pair without a key *)
(* type.                                                                   *)
KeyTypeCountZero(kp) == Len(kp.key_type) = 0

(* kp.key_type.len() != 1 *)
KeyTypeCountBad(kp) == Len(kp.key_type) # 1

(* A variant of InsertFails that drops the result of the insertion. *)
InsertNeverFails(names, name) == FALSE

(* !names.insert(name): the name was in the set already. *)
InsertFails(names, name) == name \in names

(* A variant of KeyPairLoop that inserts the name before it checks the    *)
(* shape.                                                                 *)
RECURSIVE KeyPairLoopNameFirst(_, _, _)
KeyPairLoopNameFirst(key_pairs, i, kp_names) ==
    IF i > Len(key_pairs) THEN Built(kp_names)
    ELSE LET kp == key_pairs[i] IN
         IF InsertFails(kp_names, kp.name)
           THEN Bailed(Err(MsgDuplicateKeyPair, <<kp.name>>))
         ELSE IF KeyTypeCountBad(kp)
           THEN Bailed(Err(MsgKeyTypeCount, <<kp.name, Decimal(Len(kp.key_type))>>))
         ELSE KeyPairLoopNameFirst(key_pairs, i + 1, kp_names \cup {kp.name})

(* for kp in &doc.key_pairs *)
RECURSIVE KeyPairLoop(_, _, _)
KeyPairLoop(key_pairs, i, kp_names) ==
    IF i > Len(key_pairs) THEN Built(kp_names)
    ELSE LET kp == key_pairs[i] IN
         IF KeyTypeCountBad(kp)
           THEN Bailed(Err(MsgKeyTypeCount, <<kp.name, Decimal(Len(kp.key_type))>>))
         ELSE IF InsertFails(kp_names, kp.name)
           THEN Bailed(Err(MsgDuplicateKeyPair, <<kp.name>>))
         ELSE KeyPairLoop(key_pairs, i + 1, kp_names \cup {kp.name})

(* for entity in &doc.entities *)
RECURSIVE EntityLoop(_, _, _)
EntityLoop(entities, i, entity_names) ==
    IF i > Len(entities) THEN Built(entity_names)
    ELSE LET entity == entities[i] IN
         IF InsertFails(entity_names, entity.name)
           THEN Bailed(Err(MsgDuplicateEntity, <<entity.name>>))
         ELSE EntityLoop(entities, i + 1, entity_names \cup {entity.name})

(* The first loop over &doc.certificates: gather all the names. *)
RECURSIVE CertNameLoop(_, _, _)
CertNameLoop(certificates, i, cert_names) ==
    IF i > Len(certificates) THEN Built(cert_names)
    ELSE LET cert == certificates[i] IN
         IF InsertFails(cert_names, cert.name)
           THEN Bailed(Err(MsgDuplicateCertificate, <<cert.name>>))
         ELSE CertNameLoop(certificates, i + 1, cert_names \cup {cert.name})

(* names.get(name).is_none() *)
IsMissing(names, name) == name \notin names

(* A variant of CheckIssuer that takes the issuer entity when both are set. *)
CheckIssuerEntityWins(cert, entity_names, cert_names) ==
    IF cert.issuer_entity = None /\ cert.issuer_certificate = None
      THEN Err(MsgNoIssuer, <<cert.name>>)
    ELSE IF cert.issuer_entity # None
      THEN IF IsMissing(entity_names, cert.issuer_entity[1])
             THEN Err(MsgIssuerEntity, <<cert.name, cert.issuer_key>>)
             ELSE NoError
    ELSE IF IsMissing(cert_names, cert.issuer_certificate[1])
      THEN Err(MsgIssuerCertificate, <<cert.name, cert.issuer_key>>)
      ELSE NoError

(* match (&cert.issuer_entity, &cert.issuer_certificate) *)
CheckIssuer(cert, entity_names, cert_names) ==
    IF cert.issuer_entity = None /\ cert.issuer_certificate = None
      THEN Err(MsgNoIssuer, <<cert.name>>)
    ELSE IF cert.issuer_entity # None /\ cert.issuer_certificate # None
      THEN Err(MsgBothIssuers, <<cert.name>>)
    ELSE IF cert.issuer_certificate = None
      THEN IF IsMissing(entity_names, cert.issuer_entity[1])
             THEN Err(MsgIssuerEntity, <<cert.name, cert.issuer_key>>)
             ELSE NoError
    ELSE IF IsMissing(cert_names, cert.issuer_certificate[1])
      THEN Err(MsgIssuerCertificate, <<cert.name, cert.issuer_key>>)
      ELSE NoError

(* The body of the second loop over &doc.certificates: the first check that *)
(* fails gives the error.                                                   *)
CheckCertificate(cert, kp_names, entity_names, cert_names) ==
    IF IsMissing(entity_names, cert.subject_entity)
      THEN Err(MsgSubjectEntity, <<cert.name, cert.subject_key>>)
    ELSE IF IsMissing(kp_names, cert.subject_key)
      THEN Err(MsgSubjectKey, <<cert.name, cert.subject_key>>)
    ELSE IF CheckIssuer(cert, entity_names, cert_names) # NoError
      THEN CheckIssuer(cert, entity_names, cert_names)
    ELSE IF IsMissing(kp_names, cert.issuer_key)
      THEN Err(MsgIssuerKey, <<cert.name, cert.issuer_key>>)
    ELSE NoError

(* A variant of CertNamesKnown for a validator of one pass: the names of  *)
(* the certificates up to certificate i.                                  *)
CertNamesSoFar(certificates, i, cert_names) ==
    {certificates[k].name : k \in 1..i}

(* A variant of CertNamesKnown that lets no certificate issue itself. *)
CertNamesOfOthers(certificates, i, cert_names) ==
    cert_names \ {certificates[i].name}

(* The certificate names the lookups of the second loop resolve against,   *)
(* when it is at certificate i: the set the first loop has finished.       *)
CertNamesKnown(certificates, i, cert_names) == cert_names

(* for cert in &doc.certificates *)
RECURSIVE CertCheckLoop(_, _, _, _, _)
CertCheckLoop(certificates, i, kp_names, entity_names, cert_names) ==
    IF i > Len(certificates) THEN NoError
    ELSE LET e == CheckCertificate(certificates[i], kp_names, entity_names,
                                   CertNamesKnown(certificates, i, cert_names)) IN
         IF e # NoError THEN e
         ELSE CertCheckLoop(certificates, i + 1, kp_names, entity_names, cert_names)

(* A variant of load_and_validate with one namespace for all three kinds. *)
load_and_validate_OneNamespace(d) ==
    LET kps == KeyPairLoop(d.key_pairs, 1, {})
        ents == EntityLoop(d.entities, 1, {})
        certs == CertNameLoop(d.certificates, 1, {})
        all == kps.names \cup ents.names \cup certs.names
        refs == CertCheckLoop(d.certificates, 1, all, all, all)
    IN  IF kps.err # NoError THEN kps.err
        ELSE IF ents.err # NoError THEN ents.err
        ELSE IF certs.err # NoError THEN certs.err
        ELSE IF refs # NoError THEN refs
        ELSE Ok(d)

(* A variant of load_and_validate that resolves the subject of each       *)
(* certificate request as it does a certificate's.                        *)
load_and_validate_CheckingRequests(d) ==
    LET kps == KeyPairLoop(d.key_pairs, 1, {})
        ents == EntityLoop(d.entities, 1, {})
        certs == CertNameLoop(d.certificates, 1, {})
        refs == CertCheckLoop(d.certificates, 1, kps.names, ents.names, certs.names)
        reqs == {i \in 1..Len(d.certificate_requests) :
                    \/ IsMissing(ents.names, d.certificate_requests[i].subject_entity)
                    \/ IsMissing(kps.names, d.certificate_requests[i].subject_key)}
    IN  IF kps.err # NoError THEN kps.err
        ELSE IF ents.err # NoError THEN ents.err
        ELSE IF certs.err # NoError THEN certs.err
        ELSE IF refs # NoError THEN refs
        ELSE IF reqs # {}
          THEN LET req == d.certificate_requests[CHOOSE i \in reqs : \A j \in reqs : i <= j]
               IN  Err(MsgSubjectEntity, <<req.name, req.subject_entity>>)
        ELSE Ok(d)

load_and_validate(d) ==
    LET kps == KeyPairLoop(d.key_pairs, 1, {})
        ents == EntityLoop(d.entities, 1, {})
        certs == CertNameLoop(d.certificates, 1, {})
        refs == CertCheckLoop(d.certificates, 1, kps.names, ents.names, certs.names)
    IN  IF kps.err # NoError THEN kps.err
        ELSE IF ents.err # NoError THEN ents.err
        ELSE IF certs.err # NoError THEN certs.err
        ELSE IF refs # NoError THEN refs
        ELSE Ok(d)

(* A call of load_and_validate on the decoded document. *)
LoadAndValidate ==
    /\ pc = "start"
    /\ result' = load_and_validate(doc)
    /\ pc' = "done"
    /\ UNCHANGED <<doc, policies, resolved>>

-----------------------------------------------------------------------------
(* The documents the validator is run on.  Three families, each wide in    *)
(* one direction:                                                          *)
(*   ShapeDocs      any key pairs and entities, root certificates that     *)
(*                  differ in their names only;                            *)
(*   ReferenceDocs  key pairs, entities and certificates that pass the     *)
(*                  shape and uniqueness rules, with any references;       *)
(*   RequestDocs    key pairs and entities that pass those rules, root     *)
(*                  certificates, and any certificate requests.            *)

(* A self-issued certificate of entity n under key pair n. *)
RootCertificate(n) ==
    [name |-> n, subject_entity |-> n, subject_key |-> n,
     issuer_entity |-> Some(n), issuer_certificate |-> None, issuer_key |-> n]

RootCertificates == {RootCertificate(n) : n \in Names}

UniqueNames(s) == \A i, j \in 1..Len(s) : s[i].name = s[j].name => i = j

WellFormedKeyPairs == {kp \in KeyPair : Len(kp.key_type) = 1}

UniqueKeyPairSeqs == {s \in SeqsUpTo(WellFormedKeyPairs, MaxKeyPairs) : UniqueNames(s)}

UniqueEntitySeqs == {s \in SeqsUpTo(Entity, MaxEntities) : UniqueNames(s)}

InjectiveNameSeqs(n) ==
    {s \in SeqsUpTo(Names, n) : \A i, j \in 1..Len(s) : s[i] = s[j] => i = j}

WithName(cert, n) == [cert EXCEPT !.name = n]

UniqueCertificateSeqs ==
    UNION {{[i \in 1..Len(ns) |-> WithName(body[i], ns[i])] :
               body \in [1..Len(ns) -> {c \in Certificate : c.name = "a"}]} :
           ns \in InjectiveNameSeqs(MaxCerts)}

Start(d) ==
    /\ doc = d
    /\ pc = "start"
    /\ result = Pending
    /\ policies = <<>>
    /\ resolved = <<>>

InitShapeDocs ==
    \E kps \in SeqsUpTo(KeyPair, MaxKeyPairs),
       ents \in SeqsUpTo(Entity, MaxEntities),
       certs \in SeqsUpTo(RootCertificates, MaxCerts) :
        Start(Document(kps, ents, certs, <<>>))

InitReferenceDocs ==
    \E kps \in UniqueKeyPairSeqs,
       ents \in UniqueEntitySeqs,
       certs \in UniqueCertificateSeqs :
        Start(Document(kps, ents, certs, <<>>))

InitRequestDocs ==
    \E kps \in UniqueKeyPairSeqs,
       ents \in UniqueEntitySeqs,
       certs \in SeqsUpTo(RootCertificates, MaxCerts),
       reqs \in SeqsUpTo(CertificateRequest, MaxRequests) \ {<<>>} :
        Start(Document(kps, ents, certs, reqs))

Init == InitShapeDocs \/ InitReferenceDocs \/ InitRequestDocs

Next == LoadAndValidate

Spec == Init /\ [][Next]_vars

-----------------------------------------------------------------------------
(* The policy resolver. *)

WellKnownPolicies ==
    {"TcgDiceKpAttestInit", "TcgDiceKpAttestLoc", "TcgDiceKpAssertInit",
     "TcgDiceKpAssertLoc", "TcgDiceKpEca", "TcgDiceKpIdentityInit",
     "TcgDiceKpIdentityLoc", "OanaPlatformIdentity",
     "OanaRotCodeSigningDevelopment", "OanaRotCodeSigningRelease"}

(* Well-formed dotted object identifiers, strings that are none, and the   *)
(* strings an oid node is given in the model.                               *)
DottedOidStrings ==
    {"1.2.3", "1.3.6.1.4.1.57551.1.1", "1.3.6.1.4.1.57551.1.2",
     "1.3.6.1.4.1.57551.1.3", "1.3.6.1.4.1.57551.1.4", "2.23.133.5.4.100.6",
     "2.23.133.5.4.100.7", "2.23.133.5.4.100.8", "2.23.133.5.4.100.9",
     "2.23.133.5.4.100.10", "2.23.133.5.4.100.11", "2.23.133.5.4.100.12"}

MalformedOidStrings == {"not-an-oid", "", "1..2"}

OidArguments ==
    {"1.2.3", "2.23.133.5.4.100.8", "1.3.6.1.4.1.57551.1.4"} \cup MalformedOidStrings

(* enum CertificatePolicy: a well-known variant, or Oid(String). *)
WellKnown(v) == [variant |-> v, arg |-> ""]

Oid(str) == [variant |-> "Oid", arg |-> str]

CertificatePolicy ==
    {WellKnown(v) : v \in WellKnownPolicies}
        \cup {Oid(str) : str \in OidArguments}

(* A variant of PolicyOidString in which the arm of TcgDiceKpAttestLoc    *)
(* holds the string of the arm before it.                                 *)
PolicyOidStringCopied(value) ==
    CASE value.variant = "TcgDiceKpIdentityInit" -> "2.23.133.5.4.100.6"
      [] value.variant = "TcgDiceKpIdentityLoc" -> "2.23.133.5.4.100.7"
      [] value.variant = "TcgDiceKpAttestInit" -> "2.23.133.5.4.100.8"
      [] value.variant = "TcgDiceKpAttestLoc" -> "2.23.133.5.4.100.8"
      [] value.variant = "TcgDiceKpAssertInit" -> "2.23.133.5.4.100.10"
      [] value.variant = "TcgDiceKpAssertLoc" -> "2.23.133.5.4.100.11"
      [] value.variant = "TcgDiceKpEca" -> "2.23.133.5.4.100.12"
      [] value.variant = "OanaRotCodeSigningRelease" -> "1.3.6.1.4.1.57551.1.1"
      [] value.variant = "OanaRotCodeSigningDevelopment" -> "1.3.6.1.4.1.57551.1.2"
      [] value.variant = "OanaPlatformIdentity" -> "1.3.6.1.4.1.57551.1.3"
      [] value.variant = "Oid" -> value.arg

(* The string try_from hands to ObjectIdentifier::new for each variant. *)
PolicyOidString(value) ==
    CASE value.variant = "TcgDiceKpIdentityInit" -> "2.23.133.5.4.100.6"
      [] value.variant = "TcgDiceKpIdentityLoc" -> "2.23.133.5.4.100.7"
      [] value.variant = "TcgDiceKpAttestInit" -> "2.23.133.5.4.100.8"
      [] value.variant = "TcgDiceKpAttestLoc" -> "2.23.133.5.4.100.9"
      [] value.variant = "TcgDiceKpAssertInit" -> "2.23.133.5.4.100.10"
      [] value.variant = "TcgDiceKpAssertLoc" -> "2.23.133.5.4.100.11"
      [] value.variant = "TcgDiceKpEca" -> "2.23.133.5.4.100.12"
      [] value.variant = "OanaRotCodeSigningRelease" -> "1.3.6.1.4.1.57551.1.1"
      [] value.variant = "OanaRotCodeSigningDevelopment" -> "1.3.6.1.4.1.57551.1.2"
      [] value.variant = "OanaPlatformIdentity" -> "1.3.6.1.4.1.57551.1.3"
      [] value.variant = "Oid" -> value.arg

(* Whether str is a well-formed dotted object identifier, among the        *)
(* strings the model can hand to the parser.                               *)
IsDottedOid(str) == str \in DottedOidStrings

(* ObjectIdentifier::new(str).into_diagnostic(): the identifier that str   *)
(* writes, held as its dotted string, or an error naming nothing else.     *)
ObjectIdentifierNew(str) ==
    IF IsDottedOid(str)
      THEN [ok |-> TRUE, oid |-> str]
      ELSE [ok |-> FALSE, oid |-> ""]

(* try_from(value: &CertificatePolicy) -> Result<PolicyInformation> *)
TryFrom(value) ==
    LET parsed == ObjectIdentifierNew(PolicyOidString(value)) IN
    IF parsed.ok
      THEN [ok |-> TRUE, policy_identifier |-> parsed.oid, policy_qualifiers |-> None]
      ELSE [ok |-> FALSE, policy_identifier |-> "", policy_qualifiers |-> None]

(* The policies of one CertificatePolicies extension, resolved in order:   *)
(* resolved[k] is what try_from made of policies[k].                       *)
ResolvePolicy ==
    /\ Len(resolved) < Len(policies)
    /\ resolved' = Append(resolved, TryFrom(policies[Len(resolved) + 1]))
    /\ UNCHANGED <<doc, pc, result, policies>>

InitPolicy ==
    /\ policies \in SeqsUpTo(CertificatePolicy, MaxPolicies)
    /\ resolved = <<>>
    /\ doc = EmptyDocument
    /\ pc = "idle"
    /\ result = Pending

NextPolicy == ResolvePolicy

SpecPolicy == InitPolicy /\ [][NextPolicy]_vars

-----------------------------------------------------------------------------
(* What the rules of the validator say of a document, stated on the        *)
(* document alone.                                                         *)

Done == pc = "done"

Failed == result.status = "Err"

Passed == result.status = "Ok"

KeyPairNames(d) == {d.key_pairs[i].name : i \in 1..Len(d.key_pairs)}

EntityNames(d) == {d.entities[i].name : i \in 1..Len(d.entities)}

CertificateNames(d) == {d.certificates[i].name : i \in 1..Len(d.certificates)}

(* The places where a name of s is used a second time. *)
Repeats(s) == {j \in 1..Len(s) : \E i \in 1..(j - 1) : s[i].name = s[j].name}

HasDuplicate(s) == Repeats(s) # {}

(* The places of the key pairs that do not have exactly one key type. *)
BadShapes(kps) == {i \in 1..Len(kps) : Len(kps[i].key_type) # 1}

(* The least place of a set of places of s, Len(s) + 1 when there is none. *)
First(places, s) ==
    IF places = {} THEN Len(s) + 1
    ELSE CHOOSE i \in places : \A j \in places : i <= j

NamesRuleHolds(d) ==
    /\ ~HasDuplicate(d.key_pairs)
    /\ ~HasDuplicate(d.entities)
    /\ ~HasDuplicate(d.certificates)

ExactlyOneIssuer(cert) ==
    (cert.issuer_entity = None) # (cert.issuer_certificate = None)

SubjectResolves(d, cert) ==
    /\ cert.subject_entity \in EntityNames(d)
    /\ cert.subject_key \in KeyPairNames(d)

IssuerResolves(d, cert) ==
    /\ cert.issuer_entity # None => cert.issuer_entity[1] \in EntityNames(d)
    /\ cert.issuer_certificate # None => cert.issuer_certificate[1] \in CertificateNames(d)

CertificateRuleHolds(d, cert) ==
    /\ SubjectResolves(d, cert)
    /\ ExactlyOneIssuer(cert)
    /\ IssuerResolves(d, cert)
    /\ cert.issuer_key \in KeyPairNames(d)

(* The rules of the Graph Validator on key pairs, entities and certificates. *)
RulesHold(d) ==
    /\ BadShapes(d.key_pairs) = {}
    /\ NamesRuleHolds(d)
    /\ \A i \in 1..Len(d.certificates) : CertificateRuleHolds(d, d.certificates[i])

DuplicateMessages == {MsgDuplicateKeyPair, MsgDuplicateEntity, MsgDuplicateCertificate}

CertificateMessages ==
    {MsgSubjectEntity, MsgSubjectKey, MsgNoIssuer, MsgBothIssuers,
     MsgIssuerEntity, MsgIssuerCertificate, MsgIssuerKey}

(* The error that names the first repeated name of s. *)
DuplicateError(msg, s) == Err(msg, <<s[First(Repeats(s), s)].name>>)

(* The error that names the first key pair of kps with a wrong shape. *)
ShapeError(kps) ==
    LET kp == kps[First(BadShapes(kps), kps)] IN
    Err(MsgKeyTypeCount, <<kp.name, Decimal(Len(kp.key_type))>>)

-----------------------------------------------------------------------------
(* C1: a missing-reference error names the certificate and the absent name, *)
(* the value of the field that did not resolve.  The code prints            *)
(* subject_key for an absent subject_entity and issuer_key for an absent    *)
(* issuer_entity or issuer_certificate, so this fails.                      *)
C1_MissingReferenceNamesAbsentName ==
    /\ Done =>
           \A i \in 1..Len(doc.certificates) :
               LET cert == doc.certificates[i] IN
               ExactlyOneIssuer(cert) /\ ~CertificateRuleHolds(doc, cert) => Failed
    /\ Done /\ Failed =>
        \A i \in 1..Len(doc.certificates) :
            LET cert == doc.certificates[i] IN
            result.args[1] = cert.name =>
                /\ result.msg = MsgSubjectEntity =>
                       result.args[2] = cert.subject_entity
                /\ result.msg = MsgSubjectKey =>
                       result.args[2] = cert.subject_key
                /\ result.msg = MsgIssuerEntity =>
                       result.args[2] = cert.issuer_entity[1]
                /\ result.msg = MsgIssuerCertificate =>
                       result.args[2] = cert.issuer_certificate[1]
                /\ result.msg = MsgIssuerKey =>
                       result.args[2] = cert.issuer_key

-----------------------------------------------------------------------------
(* C2, as claimed: the error is the first violation in the order key-pair  *)
(* shape, then name uniqueness, then certificate references: any wrong     *)
(* shape is reported before any repeated name.  This fails: the key-pair   *)
(* loop checks the shape and the name of one key pair at a time.           *)
C2_RuleOrderAsClaimed ==
    Done =>
        /\ BadShapes(doc.key_pairs) # {} => result = ShapeError(doc.key_pairs)
        /\ BadShapes(doc.key_pairs) = {} /\ ~NamesRuleHolds(doc) =>
               Failed /\ result.msg \in DuplicateMessages
        /\ Failed /\ result.msg \in CertificateMessages =>
               BadShapes(doc.key_pairs) = {} /\ NamesRuleHolds(doc)

(* C2, amended: the error is the first violation in the order of the scan: *)
(* the key pairs in document order, each for its shape and then its name;  *)
(* then the entity names; then the certificate names; then the references  *)
(* and issuer selection of the certificates.  A wrong shape is reported    *)
(* before a repeated key-pair name exactly when it stands no later than    *)
(* the first repeat.                                                       *)
C2_RuleOrderOfScan ==
    Done =>
        LET kps == doc.key_pairs
            shape == First(BadShapes(kps), kps)
            repeat == First(Repeats(kps), kps)
        IN  /\ shape <= Len(kps) /\ shape <= repeat => result = ShapeError(kps)
            /\ repeat <= Len(kps) /\ repeat < shape =>
                   result = DuplicateError(MsgDuplicateKeyPair, kps)
            /\ shape > Len(kps) /\ repeat > Len(kps) =>
                   /\ HasDuplicate(doc.entities) =>
                          result = DuplicateError(MsgDuplicateEntity, doc.entities)
                   /\ ~HasDuplicate(doc.entities) /\ HasDuplicate(doc.certificates) =>
                          result = DuplicateError(MsgDuplicateCertificate, doc.certificates)
            /\ Failed /\ result.msg \in CertificateMessages =>
                   BadShapes(kps) = {} /\ NamesRuleHolds(doc)

(* C2's case: a repeated key-pair name is reported although a later key    *)
(* pair has a wrong shape.                                                 *)
C2_Witness ==
    /\ Done
    /\ Failed
    /\ result.msg = MsgDuplicateKeyPair
    /\ BadShapes(doc.key_pairs) # {}

-----------------------------------------------------------------------------
(* C3, as claimed: a document in which two key pairs, two entities or two  *)
(* certificates share a name fails with a duplicate-name error of such a   *)
(* kind, naming a name that kind repeats.  This fails when a key pair of   *)
(* wrong shape is met first.                                               *)
C3_DuplicateNameAsClaimed ==
    Done /\ ~NamesRuleHolds(doc) =>
        /\ Failed
        /\ \/ result.msg = MsgDuplicateKeyPair
              /\ \E j \in Repeats(doc.key_pairs) : result.args = <<doc.key_pairs[j].name>>
           \/ result.msg = MsgDuplicateEntity
              /\ \E j \in Repeats(doc.entities) : result.args = <<doc.entities[j].name>>
           \/ result.msg = MsgDuplicateCertificate
              /\ \E j \in Repeats(doc.certificates) :
                     result.args = <<doc.certificates[j].name>>

(* C3, amended: such a document fails; the error is the duplicate-name     *)
(* error of the first kind (key pairs, entities, certificates) that        *)
(* repeats a name, naming the first name it repeats, unless a key pair of  *)
(* wrong shape stands no later than the first repeated key-pair name (or   *)
(* anywhere, when no key-pair name is repeated): then it is the key-pair   *)
(* shape error.                                                            *)
C3_DuplicateNameOrShape ==
    Done /\ ~NamesRuleHolds(doc) =>
        LET kps == doc.key_pairs
            shapeFirst == /\ BadShapes(kps) # {}
                          /\ First(BadShapes(kps), kps) <= First(Repeats(kps), kps)
        IN  /\ Failed
            /\ shapeFirst => result.msg = MsgKeyTypeCount
            /\ ~shapeFirst =>
                   result =
                       IF HasDuplicate(kps)
                         THEN DuplicateError(MsgDuplicateKeyPair, kps)
                       ELSE IF HasDuplicate(doc.entities)
                         THEN DuplicateError(MsgDuplicateEntity, doc.entities)
                       ELSE DuplicateError(MsgDuplicateCertificate, doc.certificates)

(* C3's case: two entities share a name and the error names it. *)
C3_Witness ==
    /\ Done
    /\ HasDuplicate(doc.entities)
    /\ result = DuplicateError(MsgDuplicateEntity, doc.entities)

-----------------------------------------------------------------------------
(* The checks made before the issuer selection of certificate i find       *)
(* nothing: the shapes and names, the certificates before it, and its own  *)
(* subject.                                                                *)
NothingBeforeIssuerOf(d, i) ==
    /\ BadShapes(d.key_pairs) = {}
    /\ NamesRuleHolds(d)
    /\ \A j \in 1..(i - 1) : CertificateRuleHolds(d, d.certificates[j])
    /\ SubjectResolves(d, d.certificates[i])

IssuerSelectionError(cert) ==
    IF cert.issuer_entity = None
      THEN Err(MsgNoIssuer, <<cert.name>>)
      ELSE Err(MsgBothIssuers, <<cert.name>>)

(* C4, as claimed: validation passes only if every certificate sets        *)
(* exactly one of issuer_entity / issuer_certificate, and a certificate    *)
(* that sets none or both makes it fail with the issuer-selection error of *)
(* its case, naming it.  This fails when an earlier check fails first.     *)
C4_IssuerSelectionAsClaimed ==
    Done =>
        \A i \in 1..Len(doc.certificates) :
            LET cert == doc.certificates[i] IN
            ~ExactlyOneIssuer(cert) => result = IssuerSelectionError(cert)

(* C4, amended: validation passes only if every certificate sets exactly   *)
(* one of the two; a certificate that sets none or both makes it fail, and *)
(* with the issuer-selection error of its case (two distinct messages,     *)
(* each naming the certificate) when no check before it fails.             *)
C4_IssuerSelectionUnlessEarlier ==
    Done =>
        /\ MsgNoIssuer # MsgBothIssuers
        /\ \A i \in 1..Len(doc.certificates) :
               LET cert == doc.certificates[i] IN
               /\ Passed => ExactlyOneIssuer(cert)
               /\ ~ExactlyOneIssuer(cert) /\ NothingBeforeIssuerOf(doc, i) =>
                      result = IssuerSelectionError(cert)

(* C4's case: a certificate sets both and the error says so. *)
C4_Witness ==
    /\ Done
    /\ Failed
    /\ result.msg = MsgBothIssuers
    /\ \E i \in 1..Len(doc.certificates) :
           /\ doc.certificates[i].issuer_entity # None
           /\ doc.certificates[i].issuer_certificate # None
           /\ result.args = <<doc.certificates[i].name>>

-----------------------------------------------------------------------------
(* Certificate i names certificate j as its issuer_certificate. *)
IssuedBy(d, i, j) ==
    d.certificates[i].issuer_certificate = Some(d.certificates[j].name)

(* C5: a document that satisfies the rules, in which a certificate names   *)
(* another as its issuer_certificate, passes whichever of the two is       *)
(* declared first.                                                         *)
C5_ForwardReferencesPass ==
    Done /\ RulesHold(doc) =>
        \A i, j \in 1..Len(doc.certificates) :
            i # j /\ IssuedBy(doc, i, j) => result = Ok(doc)

(* C5's case: the issuer is declared after the certificate it issues. *)
C5_Witness ==
    /\ Done
    /\ result = Ok(doc)
    /\ \E i, j \in 1..Len(doc.certificates) : i < j /\ IssuedBy(doc, i, j)

-----------------------------------------------------------------------------
(* C6, as claimed: a document with a key pair of zero or several key types *)
(* fails with the error naming that key pair and its number of key types.  *)
(* This fails when another key pair is reported first.                     *)
C6_KeyTypeCountAsClaimed ==
    Done =>
        \A i \in BadShapes(doc.key_pairs) :
            LET kp == doc.key_pairs[i] IN
            result = Err(MsgKeyTypeCount, <<kp.name, Decimal(Len(kp.key_type))>>)

(* C6, amended: such a document fails; the error names the first such key  *)
(* pair and its number of key types, unless a key-pair name is repeated    *)
(* before that key pair: then it is the duplicate-name error.              *)
C6_KeyTypeCountOfFirst ==
    Done /\ BadShapes(doc.key_pairs) # {} =>
        LET kps == doc.key_pairs IN
        /\ Failed
        /\ result =
               IF First(BadShapes(kps), kps) <= First(Repeats(kps), kps)
                 THEN ShapeError(kps)
                 ELSE DuplicateError(MsgDuplicateKeyPair, kps)

(* C6's case: a key pair with two key types is reported with its count. *)
C6_Witness ==
    /\ Done
    /\ Failed
    /\ result.msg = MsgKeyTypeCount
    /\ result.args[2] = "2"

-----------------------------------------------------------------------------
(* C7: each well-known policy resolves, to an identifier no other          *)
(* well-known policy resolves to, TcgDiceKpAttestInit to                   *)
(* 2.23.133.5.4.100.8; an oid entry resolves to its own string when that   *)
(* is a well-formed dotted identifier and to an error otherwise; and a     *)
(* resolution carries no policy qualifiers.                                *)
C7_PolicyResolution ==
    \A k \in 1..Len(resolved) :
        LET value == policies[k]
            info == resolved[k]
        IN  /\ value.variant # "Oid" => info.ok
            /\ value = WellKnown("TcgDiceKpAttestInit") =>
                   info.policy_identifier = "2.23.133.5.4.100.8"
            /\ \A m \in 1..Len(resolved) :
                   /\ value.variant # "Oid"
                   /\ policies[m].variant # "Oid"
                   /\ policies[m].variant # value.variant
                   => resolved[m].policy_identifier # info.policy_identifier
            /\ value.variant = "Oid" /\ value.arg \in DottedOidStrings =>
                   info.ok /\ info.policy_identifier = value.arg
            /\ value.variant = "Oid" /\ value.arg \in MalformedOidStrings => ~info.ok
            /\ info.ok => info.policy_qualifiers = None

(* C7's case: a well-known policy, a well-formed oid entry and a malformed *)
(* one have been resolved.                                                 *)
C7_Witness ==
    /\ policies = <<WellKnown("TcgDiceKpAttestInit"), Oid("1.2.3"), Oid("not-an-oid")>>
    /\ Len(resolved) = 3
    /\ resolved[1].policy_identifier = "2.23.133.5.4.100.8"
    /\ resolved[2].policy_identifier = "1.2.3"
    /\ ~resolved[3].ok

-----------------------------------------------------------------------------
(* C8: the three kinds of name are three namespaces.  A document whose     *)
(* names are unique within each kind never fails with a duplicate-name     *)
(* error, whatever names the kinds share; and a document passes only if    *)
(* every reference of every certificate names an item of its own kind:     *)
(* the entities for subject_entity and issuer_entity, the key pairs for    *)
(* subject_key and issuer_key, the certificates for issuer_certificate.    *)
C8_NamespacesPerKind ==
    Done =>
        /\ NamesRuleHolds(doc) => ~(Failed /\ result.msg \in DuplicateMessages)
        /\ Passed =>
               \A i \in 1..Len(doc.certificates) :
                   LET cert == doc.certificates[i] IN
                   /\ SubjectResolves(doc, cert)
                   /\ IssuerResolves(doc, cert)
                   /\ cert.issuer_key \in KeyPairNames(doc)

(* C8's case: a document passes in which one string names a key pair, an   *)
(* entity and a certificate.                                               *)
C8_Witness ==
    /\ Done
    /\ Passed
    /\ KeyPairNames(doc) \cap EntityNames(doc) \cap CertificateNames(doc) # {}

-----------------------------------------------------------------------------
WithoutRequests(d) == [d EXCEPT !.certificate_requests = <<>>]

(* The outcome of a call: that it passed, or the error it failed with. *)
Outcome(r) == IF r.status = "Ok" THEN <<"Ok">> ELSE <<r.status, r.msg, r.args>>

RequestNames(d) ==
    {d.certificate_requests[i].name : i \in 1..Len(d.certificate_requests)}

(* A request that names no entity or no key pair of the document, or       *)
(* shares its name with another request or with another item.              *)
HasBrokenRequest(d) ==
    \/ \E i \in 1..Len(d.certificate_requests) :
           LET req == d.certificate_requests[i] IN
           \/ req.subject_entity \notin EntityNames(d)
           \/ req.subject_key \notin KeyPairNames(d)
           \/ req.name \in KeyPairNames(d) \cup EntityNames(d) \cup CertificateNames(d)
    \/ HasDuplicate(d.certificate_requests)

-----------------------------------------------------------------------------
(* There is a chain of at most n issuer_certificate references from        *)
(* certificate i to certificate j.                                         *)
RECURSIVE IssuerChain(_, _, _, _)
IssuerChain(d, i, j, n) ==
    /\ n > 0
    /\ \/ IssuedBy(d, i, j)
       \/ \E k \in 1..Len(d.certificates) :
              IssuedBy(d, i, k) /\ IssuerChain(d, k, j, n - 1)

HasIssuerCycle(d) ==
    \E i \in 1..Len(d.certificates) : IssuerChain(d, i, i, Len(d.certificates))

(* C10: a document that satisfies the rules passes and is returned even    *)
(* when its issuer_certificate references form a cycle.                    *)
C10_CyclesPass ==
    Done /\ RulesHold(doc) /\ HasIssuerCycle(doc) => result = Ok(doc)

(* C10's case: two certificates, each the issuer_certificate of the other, *)
(* pass.                                                                   *)
C10_Witness ==
    /\ Done
    /\ Passed
    /\ \E i, j \in 1..Len(doc.certificates) :
           i # j /\ IssuedBy(doc, i, j) /\ IssuedBy(doc, j, i)

(* A certificate that names itself as its issuer_certificate passes too. *)
C10_SelfIssuedPasses ==
    /\ Done
    /\ Passed
    /\ \E i \in 1..Len(doc.certificates) : IssuedBy(doc, i, i)

====
